---- MODULE Spec2Model ----
(***************************************************************************)
(* Model of PromptGenerator (src/utils.py): the template-application and   *)
(* conversation-state engine.                                              *)
(*                                                                         *)
(* Strings of text are sequences of atoms.  An atom is a whitespace        *)
(* character (" " or "\n"), a replacement field of a format string         *)
(* ("{prompt}", ...), a lone brace ("{") or a run of other characters      *)
(* ("USER:", "[INST]", "Hi").  Identifiers (roles, template names, the     *)
(* model name) are TLA+ strings.                                           *)
(***************************************************************************)
EXTENDS Integers, Sequences, FiniteSets, TLC

VARIABLES
    model_name,            \* self.model_name
    conversation,          \* self.conversation: list of str / dict elements
    system_text,           \* self.system_text
    template_name,         \* self.template_name (NoAttr until load_template succeeds)
    is_llama_2,            \* self.is_llama_2 (read only when template_name is set)
    model_prompt_helper,   \* self.model_prompt_helper
    user_prompt_helper,    \* self.user_prompt_helper
    system_prompt_helper,  \* self.system_prompt_helper
    input_prompt_helper,   \* self.input_prompt_helper
    op,                    \* the method called last
    args,                  \* its arguments
    err,                   \* the exception it raised ("" when it returned)
    ret,                   \* the value it returned
    trace                  \* what was added since the last set_system_prompt

prog == <<model_name, conversation, system_text, template_name, is_llama_2,
          model_prompt_helper, user_prompt_helper, system_prompt_helper,
          input_prompt_helper>>
vars == <<model_name, conversation, system_text, template_name, is_llama_2,
          model_prompt_helper, user_prompt_helper, system_prompt_helper,
          input_prompt_helper, op, args, err, ret, trace>>

----------------------------------------------------------------------------
(* Bounds of the model *)

\* add_to_conversation is called while the conversation holds fewer elements
MaxTurns == 5
\* reduce_length is called with conv in 1..MaxKeep
MaxKeep == 2
\* load_template and custom_template are called while the conversation holds
\* at most this many elements
MaxRebindLen == 1
\* under SpecBuilder add_to_conversation is called while the conversation
\* holds fewer elements than this
MaxBuilderTurns == 2

----------------------------------------------------------------------------
(* Values *)

NoAttr == "<no attribute>"
NoAttrStr == <<NoAttr>>

Whitespace == {" ", "\n"}

Str(s) == [kind |-> "str", role |-> <<>>, content |-> s]
Dict(r, c) == [kind |-> "dict", role |-> r, content |-> c]

NoArgs == [role |-> "", text |-> <<>>, preprompt |-> <<>>, input |-> <<>>,
           system_prompt |-> <<>>, template |-> "", conv |-> 0, len_before |-> 0]
NoRet == [kind |-> "None", str |-> <<>>, list |-> <<>>]
RetStr(s) == [kind |-> "str", str |-> s, list |-> <<>>]
RetList(l) == [kind |-> "list", str |-> <<>>, list |-> l]

NoTrace == [started |-> FALSE, plain |-> FALSE, users |-> 0, sys |-> <<>>, turns |-> <<>>]

----------------------------------------------------------------------------
(* str methods *)

lower(s) ==
    CASE s = "User" -> "user"
      [] s = "System" -> "system"
      [] s = "MODEL" -> "model"
      [] s = "OpenAI" -> "openai"
      [] s = "Llama-2-Chat" -> "llama-2-chat"
      [] OTHER -> s

RECURSIVE lstrip(_)
lstrip(s) ==
    IF s # <<>> /\ Head(s) \in Whitespace THEN lstrip(Tail(s)) ELSE s

RECURSIVE rstrip(_)
rstrip(s) ==
    IF s # <<>> /\ s[Len(s)] \in Whitespace THEN rstrip(SubSeq(s, 1, Len(s) - 1)) ELSE s

strip(s) == rstrip(lstrip(s))

Fields == {"{system}", "{prompt}", "{response}", "{input}"}

FieldName(a) ==
    CASE a = "{system}" -> "system"
      [] a = "{prompt}" -> "prompt"
      [] a = "{response}" -> "response"
      [] a = "{input}" -> "input"

RECURSIVE format(_, _)
format(t, kw) ==
    IF t = <<>> THEN [err |-> "", val |-> <<>>]
    ELSE IF Head(t) = "{" THEN [err |-> "ValueError: Single '{' encountered in format string", val |-> <<>>]
    ELSE IF Head(t) \in Fields /\ FieldName(Head(t)) \notin DOMAIN kw
         THEN [err |-> "KeyError", val |-> <<>>]
    ELSE LET rest == format(Tail(t), kw)
             here == IF Head(t) \in Fields THEN kw[FieldName(Head(t))] ELSE <<Head(t)>>
         IN  IF rest.err # "" THEN rest ELSE [err |-> "", val |-> here \o rest.val]

StartsWith(s, old) ==
    /\ Len(old) <= Len(s)
    /\ SubSeq(s, 1, Len(old)) = old

RECURSIVE replace(_, _, _)
replace(s, old, new) ==
    IF s = <<>> THEN <<>>
    ELSE IF StartsWith(s, old) THEN new \o replace(SubSeq(s, Len(old) + 1, Len(s)), old, new)
    ELSE <<Head(s)>> \o replace(Tail(s), old, new)

RECURSIVE join(_)
join(l) ==
    IF l = <<>> THEN <<>> ELSE l[1].content \o join(Tail(l))

(* list slicing l[start:] and l[:stop] with Python's index normalisation *)
SliceFrom(l, start) ==
    LET s0 == IF start < 0 THEN start + Len(l) ELSE start
        s1 == IF s0 < 0 THEN 0 ELSE IF s0 > Len(l) THEN Len(l) ELSE s0
    IN  SubSeq(l, s1 + 1, Len(l))

SliceTo(l, stop) ==
    LET s0 == IF stop < 0 THEN stop + Len(l) ELSE stop
        s1 == IF s0 < 0 THEN 0 ELSE IF s0 > Len(l) THEN Len(l) ELSE s0
    IN  SubSeq(l, 1, s1)

----------------------------------------------------------------------------
(* The template store read by __init__ (prompt_templates.json) *)

model_templates ==
    [n \in {"llama-2-chat", "openai", "alpaca"} |->
        CASE n = "llama-2-chat" ->
               [system |-> <<"[INST]", " ", "<<SYS>>", "\n", "{system}", "\n", "<</SYS>>", "\n">>,
                user |-> <<" ", "[INST]", " ", "{prompt}", " ", "[/INST]">>,
                response |-> <<" ", "{response}", " ", "</s><s>">>,
                input |-> <<>>]
          [] n = "openai" ->
               [system |-> <<"system">>,
                user |-> <<"user">>,
                response |-> <<"assistant">>,
                input |-> <<>>]
          [] n = "alpaca" ->
               [system |-> <<"{system}", "\n">>,
                user |-> <<"###Instruction:", "\n", "{prompt}", "\n", "###Response:", "\n">>,
                response |-> <<"{response}", "\n">>,
                input |-> <<"###Instruction:", "\n", "{prompt}", "\n", "###Input:", "\n",
                            "{input}", "\n", "###Response:", "\n">>]]

----------------------------------------------------------------------------
(* Arguments the caller draws from *)

ModelNames == {"alpaca", "gpt2"}
TemplateArgs == {"Llama-2-Chat", "OpenAI", "alpaca", "nope"}
Roles == {"system", "user", "model", "User", "bot"}
Prompts ==
    { [text |-> <<" ", "Hi", "\n">>, preprompt |-> <<"P:", " ">>] }
Inputs == { <<>>, <<" ", "ctx">> }
SystemTexts == { <<" ", "P:", "Hi", "\n">> }
OneShotSystemPrompts == { <<>>, <<"P:", "Hi", " ">> }
CustomTemplates ==
    { [system |-> <<"{system}", "|">>, response |-> <<"{response}", "|">>,
       user |-> <<"Q:", "{prompt}", "|">>, input |-> <<>>] }

----------------------------------------------------------------------------
(* The methods: what a call does to the object, the exception it raises    *)
(* and the value it returns.                                                *)

(* load_template binding template_name before it looks the name up *)
load_template_eff_partial(template) ==
    LET t == lower(template) IN
    IF t \in DOMAIN model_templates
    THEN [model_prompt_helper |-> model_templates[t].response,
          user_prompt_helper |-> model_templates[t].user,
          system_prompt_helper |-> model_templates[t].system,
          input_prompt_helper |-> model_templates[t].input,
          template_name |-> t,
          is_llama_2 |-> (t = "llama-2-chat"),
          err |-> ""]
    ELSE [model_prompt_helper |-> model_prompt_helper,
          user_prompt_helper |-> user_prompt_helper,
          system_prompt_helper |-> system_prompt_helper,
          input_prompt_helper |-> input_prompt_helper,
          template_name |-> t,
          is_llama_2 |-> is_llama_2,
          err |-> "ValueError: Template not found."]

load_template_eff(template) ==
    LET t == lower(template) IN
    IF t \in DOMAIN model_templates
    THEN [model_prompt_helper |-> model_templates[t].response,
          user_prompt_helper |-> model_templates[t].user,
          system_prompt_helper |-> model_templates[t].system,
          input_prompt_helper |-> model_templates[t].input,
          template_name |-> t,
          is_llama_2 |-> (t = "llama-2-chat"),
          err |-> ""]
    ELSE [model_prompt_helper |-> model_prompt_helper,
          user_prompt_helper |-> user_prompt_helper,
          system_prompt_helper |-> system_prompt_helper,
          input_prompt_helper |-> input_prompt_helper,
          template_name |-> template_name,
          is_llama_2 |-> is_llama_2,
          err |-> "ValueError: Template not found."]

(* set_system_prompt without the reset of self.conversation *)
set_system_prompt_eff_append(text) ==
    IF template_name = NoAttr
    THEN [conversation |-> conversation, system_text |-> text, err |-> "AttributeError"]
    ELSE IF template_name = "openai"
    THEN [conversation |-> Append(conversation, Dict(system_prompt_helper, text)),
          system_text |-> text, err |-> ""]
    ELSE LET f == format(system_prompt_helper, [k \in {"system"} |-> strip(text)]) IN
         IF f.err # ""
         THEN [conversation |-> conversation, system_text |-> text, err |-> f.err]
         ELSE [conversation |-> Append(conversation, Str(f.val)), system_text |-> text, err |-> ""]

set_system_prompt_eff(text) ==
    IF template_name = NoAttr
    THEN [conversation |-> <<>>, system_text |-> text, err |-> "AttributeError"]
    ELSE IF template_name = "openai"
    THEN [conversation |-> <<Dict(system_prompt_helper, text)>>, system_text |-> text, err |-> ""]
    ELSE LET f == format(system_prompt_helper, [k \in {"system"} |-> strip(text)]) IN
         IF f.err # ""
         THEN [conversation |-> <<>>, system_text |-> text, err |-> f.err]
         ELSE [conversation |-> <<Str(f.val)>>, system_text |-> text, err |-> ""]

Appended(f) ==
    IF f.err # ""
    THEN [conversation |-> conversation, system_text |-> system_text, err |-> f.err]
    ELSE [conversation |-> Append(conversation, Str(f.val)), system_text |-> system_text, err |-> ""]

Unchanged(e) ==
    [conversation |-> conversation, system_text |-> system_text, err |-> e]

(* the input check applied to the model role alone *)
input_misused_model_only(role, input) ==
    role = "model" /\ input # <<>>

input_misused(role, input) ==
    role # "user" /\ input # <<>>

(* the marker removed on every llama-2-chat user turn *)
is_first_llama_2_turn_any ==
    is_llama_2

is_first_llama_2_turn ==
    Len(conversation) = 1 /\ is_llama_2

(* a user turn rendered without reading template_name *)
user_turn_any_template(combined, input) ==
    Appended(format(user_prompt_helper,
                    [k \in {"prompt", "input"} |->
                        IF k = "prompt" THEN combined ELSE strip(input)]))

user_turn(combined, input) ==
    IF template_name = NoAttr
    THEN Unchanged("AttributeError")
    ELSE IF is_first_llama_2_turn
    THEN LET f == format(user_prompt_helper, [k \in {"prompt"} |-> combined]) IN
         Appended([err |-> f.err, val |-> replace(f.val, <<" ", "[INST]">>, <<>>)])
    ELSE IF template_name = "openai"
    THEN [conversation |-> Append(conversation, Dict(user_prompt_helper, combined)),
          system_text |-> system_text, err |-> ""]
    ELSE IF input # <<>> /\ template_name = "alpaca"
    THEN Appended(format(input_prompt_helper, [k \in {"prompt"} |-> combined]))
    ELSE Appended(format(user_prompt_helper,
                         [k \in {"prompt", "input"} |->
                             IF k = "prompt" THEN combined ELSE strip(input)]))

(* a model turn tagged with the user role *)
model_turn_user_role(combined) ==
    IF template_name = NoAttr
    THEN Unchanged("AttributeError")
    ELSE IF template_name = "openai"
    THEN [conversation |-> Append(conversation, Dict(user_prompt_helper, combined)),
          system_text |-> system_text, err |-> ""]
    ELSE Appended(format(model_prompt_helper, [k \in {"response"} |-> combined]))

model_turn(combined) ==
    IF template_name = NoAttr
    THEN Unchanged("AttributeError")
    ELSE IF template_name = "openai"
    THEN [conversation |-> Append(conversation, Dict(model_prompt_helper, combined)),
          system_text |-> system_text, err |-> ""]
    ELSE Appended(format(model_prompt_helper, [k \in {"response"} |-> combined]))

add_to_conversation_eff(role, text, preprompt, input) ==
    LET combined == strip(preprompt) \o strip(text) IN
    IF input_misused(role, input)
    THEN Unchanged("ValueError: Input parameter can only be used with user role")
    ELSE IF lower(role) = "system"
    THEN set_system_prompt_eff(combined)
    ELSE IF lower(role) = "user"
    THEN user_turn(combined, input)
    ELSE IF lower(role) = "model"
    THEN model_turn(combined)
    ELSE Unchanged("")

(* clear_conversation dropping the system message too *)
clear_conversation_eff_all ==
    SliceTo(conversation, 0)

clear_conversation_eff ==
    SliceTo(conversation, 1)

(* reduce_length without the clamp of the window to the length *)
reduce_length_eff_unclamped(conv) ==
    LET couple == conv * 2 - 1
    IN  SliceTo(conversation, 1) \o SliceFrom(conversation, -couple)

(* reduce_length with a window of conv * 2 *)
reduce_length_eff_wide(conv) ==
    LET couple0 == conv * 2
        couple == IF Len(conversation) < couple0 THEN Len(conversation) - 1 ELSE couple0
    IN  SliceTo(conversation, 1) \o SliceFrom(conversation, -couple)

reduce_length_eff(conv) ==
    LET couple0 == conv * 2 - 1
        couple == IF Len(conversation) < couple0 THEN Len(conversation) - 1 ELSE couple0
    IN  SliceTo(conversation, 1) \o SliceFrom(conversation, -couple)

(* generate_one_shot_prompt keeping the system prompt as given *)
generate_one_shot_prompt_eff_raw_system(user_prompt, preprompt, system_prompt, input) ==
    LET st == IF system_prompt # <<>> THEN system_prompt ELSE system_text
        sys == format(system_prompt_helper, [k \in {"system"} |-> strip(st)])
        body == IF model_name = "alpaca" /\ input # <<>>
                THEN format(input_prompt_helper,
                            [k \in {"prompt", "input"} |->
                                IF k = "prompt" THEN strip(preprompt) \o strip(user_prompt)
                                ELSE strip(input)])
                ELSE format(user_prompt_helper,
                            [k \in {"prompt"} |-> strip(preprompt) \o strip(user_prompt)])
    IN  IF system_prompt_helper = NoAttrStr
        THEN [system_text |-> st, err |-> "AttributeError", ret |-> NoRet]
        ELSE IF sys.err # ""
        THEN [system_text |-> st, err |-> sys.err, ret |-> NoRet]
        ELSE IF body.err # ""
        THEN [system_text |-> st, err |-> body.err, ret |-> NoRet]
        ELSE [system_text |-> st, err |-> "", ret |-> RetStr(strip(sys.val \o body.val))]

generate_one_shot_prompt_eff(user_prompt, preprompt, system_prompt, input) ==
    LET st == IF system_prompt # <<>> THEN strip(system_prompt) ELSE system_text
        sys == format(system_prompt_helper, [k \in {"system"} |-> strip(st)])
        body == IF model_name = "alpaca" /\ input # <<>>
                THEN format(input_prompt_helper,
                            [k \in {"prompt", "input"} |->
                                IF k = "prompt" THEN strip(preprompt) \o strip(user_prompt)
                                ELSE strip(input)])
                ELSE format(user_prompt_helper,
                            [k \in {"prompt"} |-> strip(preprompt) \o strip(user_prompt)])
    IN  IF system_prompt_helper = NoAttrStr
        THEN [system_text |-> st, err |-> "AttributeError", ret |-> NoRet]
        ELSE IF sys.err # ""
        THEN [system_text |-> st, err |-> sys.err, ret |-> NoRet]
        ELSE IF body.err # ""
        THEN [system_text |-> st, err |-> body.err, ret |-> NoRet]
        ELSE [system_text |-> st, err |-> "", ret |-> RetStr(strip(sys.val \o body.val))]

(* generate_prompt without the final strip *)
generate_prompt_eff_unstripped ==
    IF template_name = NoAttr
    THEN [err |-> "AttributeError", ret |-> NoRet]
    ELSE IF template_name = "openai"
    THEN [err |-> "", ret |-> RetList(conversation)]
    ELSE IF \E i \in DOMAIN conversation : conversation[i].kind = "dict"
    THEN [err |-> "TypeError", ret |-> NoRet]
    ELSE [err |-> "", ret |-> RetStr(join(conversation))]

generate_prompt_eff ==
    IF template_name = NoAttr
    THEN [err |-> "AttributeError", ret |-> NoRet]
    ELSE IF template_name = "openai"
    THEN [err |-> "", ret |-> RetList(conversation)]
    ELSE IF \E i \in DOMAIN conversation : conversation[i].kind = "dict"
    THEN [err |-> "TypeError", ret |-> NoRet]
    ELSE [err |-> "", ret |-> RetStr(strip(join(conversation)))]

----------------------------------------------------------------------------
(* The state after __init__ *)

Init ==
    /\ model_name \in ModelNames
    /\ conversation = <<>>
    /\ system_text = <<>>
    /\ template_name = NoAttr
    /\ is_llama_2 = FALSE
    /\ model_prompt_helper = NoAttrStr
    /\ user_prompt_helper = NoAttrStr
    /\ system_prompt_helper = NoAttrStr
    /\ input_prompt_helper = NoAttrStr
    /\ op = "__init__"
    /\ args = NoArgs
    /\ err = ""
    /\ ret = NoRet
    /\ trace = NoTrace

----------------------------------------------------------------------------
(* One action per method call *)

load_template ==
    \E template \in TemplateArgs :
        LET e == load_template_eff(template) IN
        /\ Len(conversation) <= MaxRebindLen
        /\ model_prompt_helper' = e.model_prompt_helper
        /\ user_prompt_helper' = e.user_prompt_helper
        /\ system_prompt_helper' = e.system_prompt_helper
        /\ input_prompt_helper' = e.input_prompt_helper
        /\ template_name' = e.template_name
        /\ is_llama_2' = e.is_llama_2
        /\ op' = "load_template"
        /\ args' = [NoArgs EXCEPT !.template = template]
        /\ err' = e.err
        /\ ret' = NoRet
        /\ trace' = IF e.err = "" THEN NoTrace ELSE trace
        /\ UNCHANGED <<model_name, conversation, system_text>>

custom_template ==
    \E t \in CustomTemplates :
        /\ Len(conversation) <= MaxRebindLen
        /\ model_prompt_helper' = t.response
        /\ user_prompt_helper' = t.user
        /\ system_prompt_helper' = t.system
        /\ input_prompt_helper' = t.input
        /\ op' = "custom_template"
        /\ args' = NoArgs
        /\ err' = ""
        /\ ret' = NoRet
        /\ trace' = NoTrace
        /\ UNCHANGED <<model_name, conversation, system_text, template_name, is_llama_2>>

set_system_prompt ==
    \E text \in SystemTexts :
        LET e == set_system_prompt_eff(text) IN
        /\ conversation' = e.conversation
        /\ system_text' = e.system_text
        /\ op' = "set_system_prompt"
        /\ args' = [NoArgs EXCEPT !.text = text, !.len_before = Len(conversation)]
        /\ err' = e.err
        /\ ret' = NoRet
        /\ trace' = IF e.err = ""
                    THEN [started |-> TRUE, plain |-> TRUE, users |-> 0, sys |-> text, turns |-> <<>>]
                    ELSE NoTrace
        /\ UNCHANGED <<model_name, template_name, is_llama_2, model_prompt_helper,
                       user_prompt_helper, system_prompt_helper, input_prompt_helper>>

add_to_conversation ==
    \E role \in Roles, p \in Prompts, input \in Inputs :
        LET e == add_to_conversation_eff(role, p.text, p.preprompt, input)
            combined == strip(p.preprompt) \o strip(p.text)
            delegated == ~(role # "user" /\ input # <<>>) /\ lower(role) = "system"
            added == e.err = "" /\ ~delegated /\ lower(role) \in {"user", "model"}
        IN
        /\ Len(conversation) < MaxTurns
        /\ conversation' = e.conversation
        /\ system_text' = e.system_text
        /\ op' = "add_to_conversation"
        /\ args' = [NoArgs EXCEPT !.role = role, !.text = p.text,
                                  !.preprompt = p.preprompt, !.input = input,
                                  !.len_before = Len(conversation)]
        /\ err' = e.err
        /\ ret' = NoRet
        /\ trace' = IF delegated
                    THEN IF e.err = ""
                         THEN [started |-> TRUE, plain |-> TRUE, users |-> 0,
                               sys |-> combined, turns |-> <<>>]
                         ELSE NoTrace
                    ELSE IF added /\ trace.started
                    THEN [trace EXCEPT
                            !.users = IF lower(role) = "user" /\ @ < 2 THEN @ + 1 ELSE @,
                            !.turns = IF trace.plain
                                      THEN Append(@, [role |-> lower(role), text |-> p.text,
                                                      preprompt |-> p.preprompt, input |-> input])
                                      ELSE @]
                    ELSE trace
        /\ UNCHANGED <<model_name, template_name, is_llama_2, model_prompt_helper,
                       user_prompt_helper, system_prompt_helper, input_prompt_helper>>

clear_conversation ==
    /\ conversation' = clear_conversation_eff
    /\ op' = "clear_conversation"
    /\ args' = [NoArgs EXCEPT !.len_before = Len(conversation)]
    /\ err' = ""
    /\ ret' = NoRet
    /\ trace' = [trace EXCEPT !.plain = FALSE, !.turns = <<>>]
    /\ UNCHANGED <<model_name, system_text, template_name, is_llama_2, model_prompt_helper,
                   user_prompt_helper, system_prompt_helper, input_prompt_helper>>

reduce_length ==
    \E conv \in 1..MaxKeep :
        /\ conversation' = reduce_length_eff(conv)
        /\ op' = "reduce_length"
        /\ args' = [NoArgs EXCEPT !.conv = conv, !.len_before = Len(conversation)]
        /\ err' = ""
        /\ ret' = NoRet
        /\ trace' = [trace EXCEPT !.plain = FALSE, !.turns = <<>>]
        /\ UNCHANGED <<model_name, system_text, template_name, is_llama_2, model_prompt_helper,
                       user_prompt_helper, system_prompt_helper, input_prompt_helper>>

generate_one_shot_prompt ==
    \E p \in Prompts, system_prompt \in OneShotSystemPrompts, input \in Inputs :
        LET e == generate_one_shot_prompt_eff(p.text, p.preprompt, system_prompt, input) IN
        /\ system_text' = e.system_text
        /\ op' = "generate_one_shot_prompt"
        /\ args' = [NoArgs EXCEPT !.text = p.text, !.preprompt = p.preprompt,
                                  !.system_prompt = system_prompt, !.input = input]
        /\ err' = e.err
        /\ ret' = e.ret
        /\ UNCHANGED <<model_name, conversation, template_name, is_llama_2, model_prompt_helper,
                       user_prompt_helper, system_prompt_helper, input_prompt_helper, trace>>

generate_prompt ==
    LET e == generate_prompt_eff IN
    /\ op' = "generate_prompt"
    /\ args' = NoArgs
    /\ err' = e.err
    /\ ret' = e.ret
    /\ UNCHANGED <<model_name, conversation, system_text, template_name, is_llama_2,
                   model_prompt_helper, user_prompt_helper, system_prompt_helper,
                   input_prompt_helper, trace>>

Next ==
    \/ load_template
    \/ custom_template
    \/ set_system_prompt
    \/ add_to_conversation
    \/ clear_conversation
    \/ reduce_length
    \/ generate_one_shot_prompt
    \/ generate_prompt

Spec == Init /\ [][Next]_vars

(* The conversation methods on templates of the store.                      *)
(* generate_one_shot_prompt is the one method that reads model_name, and    *)
(* the one reader of a system_text that another call wrote; custom_template *)
(* overrides the helpers of the store.  Both are left to Spec and, on short *)
(* conversations, to SpecBuilder.                                           *)
InitConversation ==
    Init /\ model_name = "gpt2"

NextConversation ==
    \/ load_template
    \/ set_system_prompt
    \/ add_to_conversation
    \/ clear_conversation
    \/ reduce_length
    \/ generate_prompt

SpecConversation == InitConversation /\ [][NextConversation]_vars

(* Every method, generate_one_shot_prompt and custom_template included, on  *)
(* short conversations whose templates are bound while the conversation is  *)
(* empty: the template and model-name cases need few turns.                 *)
NextBuilder ==
    \/ (conversation = <<>> /\ load_template)
    \/ (conversation = <<>> /\ custom_template)
    \/ set_system_prompt
    \/ (Len(conversation) < MaxBuilderTurns /\ add_to_conversation)
    \/ clear_conversation
    \/ reduce_length
    \/ generate_one_shot_prompt
    \/ generate_prompt

SpecBuilder == Init /\ [][NextBuilder]_vars

----------------------------------------------------------------------------
(* Properties *)

TemplateVars ==
    <<template_name, is_llama_2, model_prompt_helper, user_prompt_helper,
      system_prompt_helper, input_prompt_helper>>

Combined(a) == strip(a.preprompt) \o strip(a.text)

RenderedSystem(x) ==
    IF template_name = "openai"
    THEN Dict(system_prompt_helper, x)
    ELSE Str(format(system_prompt_helper, [k \in {"system"} |-> strip(x)]).val)

SystemRoleCall == op = "add_to_conversation" /\ lower(args.role) = "system"

(* C1: after a successful set_system_prompt(x), called directly or through *)
(* add_to_conversation with role system, the conversation is exactly the    *)
(* one rendered system message of x, whatever it held before.              *)
C1_SystemPromptReplacesConversation ==
    LET x == IF op = "set_system_prompt" THEN args.text ELSE Combined(args) IN
    ((op = "set_system_prompt" \/ SystemRoleCall) /\ err = "")
        => /\ conversation = <<RenderedSystem(x)>>
           /\ Len(conversation) = 1

C1_Witness ==
    /\ SystemRoleCall
    /\ err = ""
    /\ args.len_before >= 3
    /\ Len(conversation) = 1

PlainConversation ==
    /\ trace.started
    /\ trace.plain
    /\ template_name # NoAttr

Marker == <<" ", "[INST]">>

ExpectedTurn(i) ==
    LET t == trace.turns[i] IN
    IF t.role = "user"
    THEN LET whole == format(user_prompt_helper,
                             [k \in {"prompt", "input"} |->
                                 IF k = "prompt" THEN Combined(t) ELSE strip(t.input)]).val
             with_input == format(input_prompt_helper, [k \in {"prompt"} |-> Combined(t)]).val
         IN  IF i = 1 /\ is_llama_2 THEN replace(whole, Marker, <<>>)
             ELSE IF t.input # <<>> /\ template_name = "alpaca" THEN with_input
             ELSE whole
    ELSE format(model_prompt_helper, [k \in {"response"} |-> Combined(t)]).val

RECURSIVE ExpectedTurnsFrom(_)
ExpectedTurnsFrom(i) ==
    IF i > Len(trace.turns) THEN <<>> ELSE ExpectedTurn(i) \o ExpectedTurnsFrom(i + 1)

(* C2: with a template other than openai bound, after set_system_prompt and *)
(* any sequence of user and model turns, generate_prompt returns the        *)
(* rendered system message followed by the rendered turns in the order they *)
(* were added, stripped at both ends, and changes nothing of the object.    *)
C2_GeneratePromptConcatenates ==
    [][(op' = "generate_prompt" /\ PlainConversation /\ template_name # "openai")
        => /\ err' = ""
           /\ ret' = RetStr(strip(RenderedSystem(trace.sys).content \o ExpectedTurnsFrom(1)))
           /\ prog' = prog]_vars

C2_Witness ==
    /\ op = "generate_prompt"
    /\ PlainConversation
    /\ template_name = "alpaca"
    /\ Len(trace.turns) >= 3
    /\ ret.kind = "str"
    /\ ret.str # join(conversation)

ExpectedRecord(i) ==
    LET t == trace.turns[i] IN
    Dict(IF t.role = "user" THEN user_prompt_helper ELSE model_prompt_helper, Combined(t))

(* C3: with the openai template bound, after set_system_prompt and any      *)
(* sequence of user and model turns, generate_prompt returns one record per *)
(* turn, in the order added; its role is the template's system, user or     *)
(* response field and its content the turn's text.                          *)
C3_OpenAIRecords ==
    (op = "generate_prompt" /\ PlainConversation /\ template_name = "openai")
        => /\ err = ""
           /\ ret = RetList(<<Dict(system_prompt_helper, trace.sys)>>
                            \o [i \in 1..Len(trace.turns) |-> ExpectedRecord(i)])

C3_Witness ==
    /\ op = "generate_prompt"
    /\ PlainConversation
    /\ template_name = "openai"
    /\ Len(trace.turns) >= 3
    /\ \E i, j \in 1..Len(trace.turns) : trace.turns[i].role # trace.turns[j].role

LlamaBound ==
    /\ template_name = "llama-2-chat"
    /\ user_prompt_helper = model_templates["llama-2-chat"].user

UserTurnAdded ==
    /\ op = "add_to_conversation"
    /\ lower(args.role) = "user"
    /\ err = ""

StoredTurn == conversation[Len(conversation)]

UnmodifiedUserTurn ==
    format(user_prompt_helper,
           [k \in {"prompt", "input"} |->
               IF k = "prompt" THEN Combined(args) ELSE strip(args.input)]).val

(* C4, as claimed: with llama-2-chat bound, in a conversation started by    *)
(* set_system_prompt, the first user turn added after the system message is *)
(* stored with " [INST]" removed and every later user turn is stored        *)
(* unmodified.  Stated for the conversations that only add_to_conversation  *)
(* continued, so that its violation does not rest on what reduce_length or  *)
(* clear_conversation do.                                                   *)
C4_FirstUserTurnOnly ==
    (UserTurnAdded /\ LlamaBound /\ PlainConversation)
        => StoredTurn = IF trace.users = 1
                        THEN Str(replace(UnmodifiedUserTurn, Marker, <<>>))
                        ELSE Str(UnmodifiedUserTurn)

(* C4, amended: with llama-2-chat bound, a user turn is stored with         *)
(* " [INST]" removed exactly when the conversation held one element when    *)
(* the turn was added, and unmodified otherwise.                            *)
C4_SecondElementOnly ==
    (UserTurnAdded /\ LlamaBound)
        => StoredTurn = IF args.len_before = 1
                        THEN Str(replace(UnmodifiedUserTurn, Marker, <<>>))
                        ELSE Str(UnmodifiedUserTurn)

C4_Witness ==
    /\ UserTurnAdded
    /\ LlamaBound
    /\ trace.started
    /\ trace.users = 2
    /\ args.len_before = 1
    /\ StoredTurn # Str(UnmodifiedUserTurn)

Window(conv) == conv * 2 - 1

(* C5: for conv >= 1, when the conversation holds more than conv*2-1        *)
(* elements after index 0, reduce_length(conv) leaves element 0 followed by *)
(* exactly the last conv*2-1 elements, in their original order.             *)
C5_ReduceKeepsLastWindow ==
    [][(op' = "reduce_length" /\ Len(conversation) - 1 > Window(args'.conv))
        => conversation' =
              <<conversation[1]>>
              \o SubSeq(conversation, Len(conversation) - Window(args'.conv) + 1,
                        Len(conversation))]_vars

C5_Witness ==
    /\ op = "reduce_length"
    /\ args.len_before - 1 > Window(args.conv)
    /\ Len(conversation) = 1 + Window(args.conv)
    /\ conversation[1] # conversation[2]

(* C6: for conv >= 1, when the conversation holds at most conv*2-1 elements *)
(* after index 0 (also when it holds 0 or 1 elements), reduce_length(conv)  *)
(* leaves the conversation unchanged.                                       *)
C6_ReduceWithinWindowIsNoOp ==
    [][(op' = "reduce_length" /\ Len(conversation) - 1 <= Window(args'.conv))
        => conversation' = conversation]_vars

(* C7: clear_conversation leaves the prefix of length min(1, len) of the    *)
(* conversation and leaves system_text and the bound template unchanged;    *)
(* clearing again changes nothing.                                          *)
C7_ClearKeepsFirstElement ==
    [][op' = "clear_conversation"
        => /\ conversation' = SubSeq(conversation, 1, IF Len(conversation) < 1 THEN 0 ELSE 1)
           /\ system_text' = system_text
           /\ TemplateVars' = TemplateVars
           /\ clear_conversation_eff' = conversation']_vars

C7_Witness ==
    /\ op = "clear_conversation"
    /\ args.len_before >= 3
    /\ Len(conversation) = 1
    /\ system_text # <<>>

TemplateNotFound == "ValueError: Template not found."

(* C8: load_template with a name absent from the store raises "Template not *)
(* found." and leaves the four helpers, template_name, is_llama_2, the      *)
(* conversation and system_text as they were.                               *)
C8_UnknownTemplateChangesNothing ==
    [][(op' = "load_template" /\ lower(args'.template) \notin DOMAIN model_templates)
        => /\ err' = TemplateNotFound
           /\ prog' = prog]_vars

C8_Witness ==
    /\ op = "load_template"
    /\ err = TemplateNotFound
    /\ template_name # NoAttr
    /\ Len(conversation) = 1

(* C9: add_to_conversation with a role that is not system, user or model    *)
(* (compared case-insensitively) raises an exception, whatever the text,    *)
(* preprompt and input, in every state with a template bound.               *)
C9_InvalidRoleRaises ==
    (/\ op = "add_to_conversation"
     /\ lower(args.role) \notin {"system", "user", "model"}
     /\ template_name # NoAttr)
        => err # ""

InputMisused == "ValueError: Input parameter can only be used with user role"

(* C10: add_to_conversation with role system or model and a non-empty input *)
(* raises "Input parameter can only be used with user role" before any      *)
(* effect: the conversation, system_text and the template are unchanged.    *)
C10_InputWithOtherRoleRaises ==
    [][(/\ op' = "add_to_conversation"
        /\ lower(args'.role) \in {"system", "model"}
        /\ args'.input # <<>>)
        => /\ err' = InputMisused
           /\ prog' = prog]_vars

C10_Witness ==
    /\ op = "add_to_conversation"
    /\ lower(args.role) = "system"
    /\ args.input # <<>>
    /\ err = InputMisused
    /\ Len(conversation) >= 3

(* C11: roles are matched without regard to case: add_to_conversation with  *)
(* a role r has the outcome (exception, conversation, system_text) of the   *)
(* same call with lower(r), a non-empty input included.                     *)
C11_RoleCaseInsensitive ==
    [][op' = "add_to_conversation"
        => LET e == add_to_conversation_eff(lower(args'.role), args'.text,
                                            args'.preprompt, args'.input)
           IN  /\ err' = e.err
               /\ conversation' = e.conversation
               /\ system_text' = e.system_text]_vars

Fresh ==
    /\ template_name = NoAttr
    /\ system_prompt_helper = NoAttrStr

ValidRoleCall == op = "add_to_conversation" /\ lower(args.role) \in {"system", "user", "model"}

CustomOnly ==
    /\ template_name = NoAttr
    /\ system_prompt_helper # NoAttrStr

(* C13: when custom_template is the only configuration call made,           *)
(* set_system_prompt, add_to_conversation with role user or model and       *)
(* generate_prompt raise nothing, and the system message is the custom      *)
(* system template rendered as a string.                                    *)
C13_CustomTemplateAloneUsable ==
    (/\ CustomOnly
     /\ \/ op \in {"set_system_prompt", "generate_prompt"}
        \/ (op = "add_to_conversation" /\ args.role \in {"user", "model"}
                                       /\ ~input_misused(args.role, args.input)))
        => /\ err = ""
           /\ op = "set_system_prompt"
                => conversation =
                     <<Str(format(system_prompt_helper, [k \in {"system"} |-> strip(args.text)]).val)>>

AlpacaBound ==
    /\ template_name = "alpaca"
    /\ input_prompt_helper = model_templates["alpaca"].input

(* C14: with the alpaca template bound, add_to_conversation with role user  *)
(* and a non-empty input raises nothing and appends exactly one element:    *)
(* the input template rendered with prompt = strip(preprompt) + strip(text) *)
(* and input = the input given.                                             *)
C14_AlpacaInputTurn ==
    (/\ op = "add_to_conversation"
     /\ args.role = "user"
     /\ args.input # <<>>
     /\ AlpacaBound)
        => /\ err = ""
           /\ Len(conversation) = args.len_before + 1
           /\ conversation[Len(conversation)] =
                Str(format(input_prompt_helper,
                           [k \in {"prompt", "input"} |->
                               IF k = "prompt" THEN Combined(args) ELSE args.input]).val)

StoreTemplateBound ==
    /\ template_name \in DOMAIN model_templates
    /\ system_prompt_helper = model_templates[template_name].system
    /\ user_prompt_helper = model_templates[template_name].user
    /\ input_prompt_helper = model_templates[template_name].input

OneShotUserPart ==
    IF template_name = "alpaca" /\ args.input # <<>>
    THEN format(input_prompt_helper,
                [k \in {"prompt", "input"} |->
                    IF k = "prompt" THEN Combined(args) ELSE strip(args.input)]).val
    ELSE format(user_prompt_helper, [k \in {"prompt"} |-> Combined(args)]).val

(* C15: generate_one_shot_prompt renders the user part with the input       *)
(* template exactly when the bound template is alpaca and the input is not  *)
(* empty, whatever model_name is, and with the user template otherwise.     *)
C15_OneShotInputByTemplate ==
    (op = "generate_one_shot_prompt" /\ StoreTemplateBound)
        => /\ err = ""
           /\ ret = RetStr(strip(format(system_prompt_helper,
                                        [k \in {"system"} |-> strip(system_text)]).val
                                 \o OneShotUserPart))

(* C16: generate_one_shot_prompt leaves the conversation and the bound      *)
(* template as they were in every state; it assigns system_text only when   *)
(* its system_prompt argument is not empty, and then to that argument       *)
(* stripped; with an empty system_prompt and an empty system_text it        *)
(* returns a string and raises nothing once the helpers are bound.          *)
C16_OneShotFrame ==
    [][op' = "generate_one_shot_prompt"
        => /\ conversation' = conversation
           /\ TemplateVars' = TemplateVars
           /\ system_text' = IF args'.system_prompt # <<>>
                             THEN strip(args'.system_prompt) ELSE system_text
           /\ (args'.system_prompt = <<>> /\ system_text = <<>>
                                          /\ system_prompt_helper # NoAttrStr)
                => (err' = "" /\ ret'.kind = "str")]_vars

C16_Witness ==
    /\ op = "generate_one_shot_prompt"
    /\ err = ""
    /\ args.system_prompt # <<>>
    /\ system_text = strip(args.system_prompt)
    /\ system_text # args.system_prompt
    /\ Len(conversation) >= 2
    /\ conversation[1] # Str(format(system_prompt_helper, [k \in {"system"} |-> system_text]).val)

(* C17: every method is all-or-nothing: when a call raises, the             *)
(* conversation, system_text and the bound template are what they were      *)
(* before the call.                                                         *)
C17_FailureChangesNothing ==
    [][err' # "" => prog' = prog]_vars

SystemInputs == SystemTexts \cup { strip(p.preprompt) \o strip(p.text) : p \in Prompts }

(* what set_system_prompt stores under a template of the store *)
SystemMessages ==
    UNION { { IF n = "openai"
              THEN Dict(model_templates[n].system, x)
              ELSE Str(format(model_templates[n].system, [k \in {"system"} |-> strip(x)]).val)
              : x \in SystemInputs }
            : n \in DOMAIN model_templates }

(* C18: in every state reached by load_template, set_system_prompt,         *)
(* add_to_conversation, clear_conversation and reduce_length, a non-empty   *)
(* conversation has the rendered system message as its first element, never *)
(* a user or model turn.                                                    *)
C18_FirstElementIsSystemMessage ==
    conversation # <<>> => conversation[1] \in SystemMessages

(* C19: reduce_length(conv) called again with the same conv leaves the      *)
(* conversation as the first call left it, for every conversation and every *)
(* conv >= 1.                                                               *)
C19_ReduceIdempotent ==
    op = "reduce_length" => reduce_length_eff(args.conv) = conversation

C19_Witness ==
    /\ op = "reduce_length"
    /\ args.len_before > Len(conversation)
    /\ Len(conversation) = 1 + Window(args.conv)
    /\ reduce_length_eff(args.conv) = conversation
    /\ \E i \in 2..Len(conversation) : conversation[i] # conversation[1]

BoundKind == IF template_name = "openai" THEN "dict" ELSE "str"

(* C20: in every state with a template bound, also after load_template is   *)
(* called again in the middle of a conversation, every element of the       *)
(* conversation has the representation of the bound template (records under *)
(* openai, strings otherwise), and generate_prompt raises nothing.          *)
C20_UniformRepresentation ==
    template_name # NoAttr
        => /\ \A i \in DOMAIN conversation : conversation[i].kind = BoundKind
           /\ op = "generate_prompt" => err = ""

====
